---------------------------- MODULE Spec2Model ----------------------------
(***************************************************************************)
(* Model of the Eventbrite scraper (src/src/index.ts): the page-selector  *)
(* parser, the scrape job client, the result store and the two-phase      *)
(* enrichment pipeline of main().                                         *)
(*                                                                         *)
(* JavaScript strings are sequences of one-character strings, so that     *)
(* trim, split, includes and parseInt are computed character by           *)
(* character.  null/undefined and a truthy value that is not a string are *)
(* the two reserved one-element sequences Null and NonStr.                *)
(***************************************************************************)
EXTENDS Integers, Sequences, FiniteSets, TLC

\* ------------------------------------------------------------- bounds
\* longest page-selector string enumerated for the parser
MaxLen == 3
\* number of token edits (swap, repeat, add) applied to one page selector
MaxEdits == 1
\* polls of one job that are counted; later polls leave the count alone
MaxPolls == 1

\* ------------------------------------------------------ string helpers
Null == <<"<null>">>
NonStr == <<"<object>">>

Range(s) == {s[i] : i \in 1..Len(s)}

Min(a, b) == IF a <= b THEN a ELSE b
Max(a, b) == IF a >= b THEN a ELSE b

IsWhite(c) == c = " "
IsDigit(c) == c \in {"0", "1", "2", "3", "4", "5", "6", "7", "8", "9"}

DigitVal(c) ==
  CASE c = "0" -> 0 [] c = "1" -> 1 [] c = "2" -> 2 [] c = "3" -> 3
    [] c = "4" -> 4 [] c = "5" -> 5 [] c = "6" -> 6 [] c = "7" -> 7
    [] c = "8" -> 8 [] c = "9" -> 9

\* String.prototype.trim
RECURSIVE TrimLeft(_)
TrimLeft(s) ==
  IF s # <<>> /\ IsWhite(Head(s)) THEN TrimLeft(Tail(s)) ELSE s

RECURSIVE TrimRight(_)
TrimRight(s) ==
  IF s # <<>> /\ IsWhite(s[Len(s)])
    THEN TrimRight(SubSeq(s, 1, Len(s) - 1))
    ELSE s

trim(s) == TrimRight(TrimLeft(s))

\* String.prototype.split with a one-character separator: "" gives [""],
\* and a trailing separator gives a trailing "".
RECURSIVE SplitFrom(_, _, _, _)
SplitFrom(s, sep, cur, acc) ==
  IF s = <<>> THEN Append(acc, cur)
  ELSE IF Head(s) = sep THEN SplitFrom(Tail(s), sep, <<>>, Append(acc, cur))
  ELSE SplitFrom(Tail(s), sep, Append(cur, Head(s)), acc)

split(s, sep) == SplitFrom(s, sep, <<>>, <<>>)

\* String.prototype.includes: sub occurs in s as a contiguous substring
includes(s, sub) ==
  \E i \in 1..(Len(s) - Len(sub) + 1) : SubSeq(s, i, i + Len(sub) - 1) = sub

\* Array.prototype.join(",")
RECURSIVE join(_)
join(parts) ==
  IF parts = <<>> THEN <<>>
  ELSE IF Len(parts) = 1 THEN parts[1]
  ELSE parts[1] \o <<",">> \o join(Tail(parts))

\* ---------------------------------------------------------- parseInt
\* parseInt(s) with no radix: leading white space is skipped, one sign is
\* accepted, then the longest prefix of decimal digits is read and whatever
\* follows is ignored; no digit at all gives NaN.  (The "0x" prefix that
\* switches to radix 16 needs the letter x, which no modelled input has.)
NaN == [nan |-> TRUE, val |-> 0]
Num(n) == [nan |-> FALSE, val |-> n]

RECURSIVE DigitsValue(_, _, _)
DigitsValue(s, acc, seen) ==
  IF s # <<>> /\ IsDigit(Head(s))
    THEN DigitsValue(Tail(s), 10 * acc + DigitVal(Head(s)), TRUE)
    ELSE IF seen THEN Num(acc) ELSE NaN

parseInt(s) ==
  LET t == TrimLeft(s)
      neg == t # <<>> /\ Head(t) = "-"
      signed == t # <<>> /\ Head(t) \in {"-", "+"}
      body == IF signed THEN Tail(t) ELSE t
      r == DigitsValue(body, 0, FALSE)
  IN  IF r.nan THEN NaN ELSE Num(IF neg THEN 0 - r.val ELSE r.val)

\* --------------------------------------------------------- parsePages
\* Set.prototype.add on a Set kept in insertion order
SetAdd(pages, n) == IF n \in Range(pages) THEN pages ELSE Append(pages, n)

\* the for loop of a range token: i from lo to hi, adding each i > 0
AddRangeBroken(pages, start, end) ==
  LET n == IF end >= start THEN end - start + 1 ELSE 0
      cand == [k \in 1..n |-> start + k - 1]
      have == Range(pages)
      Fresh(i) == i > 0 /\ i \notin have
  IN  pages \o SelectSeq(cand, Fresh)

AddRange(pages, start, end) ==
  LET lo == Min(start, end)
      hi == Max(start, end)
      cand == [k \in 1..(hi - lo + 1) |-> lo + k - 1]
      have == Range(pages)
      Fresh(i) == i > 0 /\ i \notin have
  IN  pages \o SelectSeq(cand, Fresh)

\* one iteration of "for (const part of parts)"
AddPart(pages, part) ==
  IF includes(part, <<"-">>)
    THEN LET ends == split(part, "-")
             start == parseInt(trim(ends[1]))
             end == parseInt(trim(ends[2]))
         IN  IF ~start.nan /\ ~end.nan
               THEN AddRange(pages, start.val, end.val)
               ELSE pages
    ELSE LET num == parseInt(part)
         IN  IF ~num.nan /\ num.val > 0 THEN SetAdd(pages, num.val) ELSE pages

RECURSIVE AddParts(_, _)
AddParts(pages, parts) ==
  IF parts = <<>> THEN pages
  ELSE AddParts(AddPart(pages, Head(parts)), Tail(parts))

\* input.trim().split(",").map(p => p.trim()).filter(Boolean)
PageParts(input) ==
  LET raw == split(trim(input), ",")
      trimmed == [i \in 1..Len(raw) |-> trim(raw[i])]
      NonEmpty(p) == p # <<>>
  IN  SelectSeq(trimmed, NonEmpty)

NumLess(a, b) == a < b

\* Array.from(pages).sort((a, b) => a - b)
SortPagesBroken(pages) == pages

SortPages(pages) == SortSeq(pages, NumLess)

parsePages(input) == SortPages(AddParts(<<>>, PageParts(input)))

\* ------------------------------------------------- JavaScript values
\* a || b on string-valued fields: "", null and undefined are falsy
Truthy(v) == v # Null /\ v # <<>>
Or(a, b) == IF Truthy(a) THEN a ELSE b

\* numbers: NullNum stands for an absent (null/undefined) number
NullNum == 0 - 1
OrNum(a, b) == IF a # NullNum /\ a # 0 THEN a ELSE b

\* ------------------------------------------------------- the service
\* URLs and other strings the extraction service can return
Url_e1 == <<"x", "/", "e", "/", "1">>
Url_e2 == <<"x", "/", "e", "/", "2">>
Url_o3 == <<"x", "/", "o", "/", "3">>
Url_site == <<"w", ".", "i", "o">>
FbHost == <<"f", "a", "c", "e", "b", "o", "o", "k", ".", "c", "o", "m", "/">>
GenericProfile == FbHost \o <<"E", "v", "e", "n", "t", "b", "r", "i", "t", "e">>
Url_fbOrg == FbHost \o <<"o", "r", "g">>
Url_fbGeneric == <<"w", "."  >> \o GenericProfile \o <<"/">>
Url_fbOther == FbHost \o <<"p", "g">>
DetailMarker == <<"/", "e", "/">>

\* An object is a record; {} , null and undefined all read as "no field" and
\* are the empty function <<>>.
Field(obj, f) == IF f \in DOMAIN obj THEN obj[f] ELSE Null
FieldNum(obj, f) == IF f \in DOMAIN obj THEN obj[f] ELSE NullNum

\* result.event_urls of a search page: absent, or a list whose elements are
\* strings, null or a truthy value that is not a string
PagePayloads ==
  { <<>>,
    [event_urls |-> <<Url_e1, Url_e2>>],
    [event_urls |-> <<Url_e2, Url_o3>>],
    [event_urls |-> <<Null, Url_e1, Url_e1>>],
    [event_urls |-> <<Url_e2, NonStr>>] }

\* the event page: event_name, organizer_name, organizer_url.  The record
\* with every field Null is also what a null content or {} behaves like.
EventPayloads ==
  { [event_name |-> <<"E", "v">>, organizer_name |-> <<"E", "o">>, organizer_url |-> Url_o3],
    [event_name |-> Null, organizer_name |-> <<"E", "o">>],
    <<>> }

\* the organizer page: organizer_name, website, follower_count, total_events
OrganizerPayloads ==
  { [organizer_name |-> <<"O", "r">>, website |-> Url_site, follower_count |-> 7, total_events |-> 3],
    [organizer_name |-> Null, website |-> Url_site, follower_count |-> NullNum, total_events |-> 0],
    [organizer_name |-> <<"O", "r">>, follower_count |-> 7] }

\* the organizer's website: email, phone, address, facebook
WebsitePayloads ==
  { [email |-> <<"w", "@">>, phone |-> <<"w", "1">>, address |-> Null, facebook |-> Url_fbOrg],
    [email |-> Null, phone |-> <<"w", "1">>, address |-> Null, facebook |-> Url_fbOrg],
    [email |-> <<>>, phone |-> Null, address |-> <<"w", "A">>, facebook |-> Url_fbGeneric],
    [email |-> Null, phone |-> Null, address |-> Null, facebook |-> NonStr],
    <<>> }

\* the social profile: email, phone, address, and a link of its own that the
\* prompt did not ask for
FacebookPayloads ==
  { [email |-> <<"f", "@">>, phone |-> Null, address |-> <<"f", "A">>,
     facebook |-> Url_fbOther] }

\* ------------------------------------------------------------ state
VARIABLES
  pPc,      \* parser harness: "new" before parsePages ran, then "parsed"
  pIn,      \* PAGES_INPUT, the page-selector string handed to parsePages
  pOut,     \* PAGES, what parsePages returned for pIn
  pBase,    \* what parsePages returned for the selector before any edit
  pEdits,   \* number of token edits applied to the selector
  API_KEY,  \* process.env.SPIDRA_API_KEY || ""
  BASE_URL, \* process.env.SPIDRA_BASE_URL || ""
  pc,       \* where main() stands
  page,     \* index in PAGES of the page being processed
  eventUrlSet,  \* the Set of event URLs, in insertion order
  eventUrls,    \* Array.from(eventUrlSet)
  i,        \* index of the event being processed (1-based)
  allResults,
  event, organizer, websiteContact, facebookContact,
  stage,    \* which call of scrape is running
  sc,       \* where scrape() stands: idle, post, poll, returned, threw
  jobUrls,  \* the urls of the job being submitted
  polls,    \* polls made for the job in flight (counted up to MaxPolls)
  result,   \* what scrape() returned
  file,     \* output/events.json
  archives, \* output/events-<timestamp>.json, by path
  archiveCalls, \* calls of archiveExistingResults
  saveCalls,    \* calls of saveResults
  posts,        \* POST requests that reached the service
  scEnd,        \* how the last call of scrape ended
  okUrls,       \* detail-page URLs returned by the pages whose scrape returned
  evOkUrls,     \* event URLs whose event-stage scrape returned
  entered,      \* stages of the current event whose scrape was called
  calls,        \* calls of scrape made so far in the run
  abandoned     \* a job was accepted and scrape ended before seeing it end

pvars == <<pPc, pIn, pOut, pBase, pEdits>>
cfgVars == <<API_KEY, BASE_URL>>
chainVars == <<event, organizer, websiteContact, facebookContact>>
callVars == <<pc, stage, sc, jobUrls, polls, result, entered, scEnd, calls>>
jobVars == <<posts, abandoned>>
storeVars == <<allResults, file, saveCalls>>
loopVars == <<page, eventUrlSet, eventUrls, i, okUrls, evOkUrls>>
archVars == <<archives, archiveCalls>>
vars ==
  <<pvars, cfgVars, chainVars, callVars, storeVars, loopVars, archVars, jobVars>>

PAGES == pOut

\* ------------------------------------------------------ result store
NoFile == [exists |-> FALSE, content |-> <<>>]

RecordKeys ==
  <<"event_name", "event_url", "organizer_name", "organizer_url",
    "organizer_website", "email", "phone", "address", "facebook",
    "follower_count", "total_events">>

NumberKeys == {"follower_count", "total_events"}

\* JSON text of one value: null, a number or a string literal
JSONvalue(k, v) ==
  IF k \in NumberKeys THEN <<"number", v>>
  ELSE IF v = Null THEN <<"null", <<>>>>
  ELSE <<"string", v>>

\* JSON.stringify(results, null, 2): an array of objects, each the list of
\* its "key": value members in insertion order
JSONstringify(results) ==
  [n \in 1..Len(results) |->
     [m \in 1..Len(RecordKeys) |->
        <<RecordKeys[m], JSONvalue(RecordKeys[m], results[n][RecordKeys[m]])>>]]

\* function saveResults(results), as the new content of output/events.json
saveResultsLast(results) ==
  [exists |-> TRUE, content |-> JSONstringify(<<results[Len(results)]>>)]

saveResults(results) ==
  [exists |-> TRUE, content |-> JSONstringify(results)]

\* new Date().toISOString(), at two instants of different seconds
Times ==
  { <<"2", "0", "2", "6", "-", "0", "2", "-", "1", "2", "T", "1", "4", ":",
      "3", "0", ":", "4", "5", ".", "1", "2", "3", "Z">>,
    <<"2", "0", "2", "6", "-", "0", "2", "-", "1", "2", "T", "1", "4", ":",
      "3", "0", ":", "4", "6", ".", "0", "0", "0", "Z">> }

\* .replace(/[:.]/g, "-").slice(0, 19)
Timestamp(iso) ==
  SubSeq([k \in 1..Len(iso) |-> IF iso[k] \in {":", "."} THEN "-" ELSE iso[k]],
         1, Min(19, Len(iso)))

\* `output/events-${timestamp}.json`
ArchivePath(iso) ==
  <<"e", "v", "e", "n", "t", "s", "-">> \o Timestamp(iso) \o <<".", "j", "s", "o", "n">>

ArchivePaths == {ArchivePath(t) : t \in Times}

\* function archiveExistingResults(), as the files it leaves
archiveCopies(f, a, now) ==
  IF f.exists
    THEN [file |-> f, archives |-> [a EXCEPT ![ArchivePath(now)] = f]]
    ELSE [file |-> f, archives |-> a]

archiveExistingResults(f, a, now) ==
  IF f.exists
    THEN [file |-> NoFile, archives |-> [a EXCEPT ![ArchivePath(now)] = f]]
    ELSE [file |-> f, archives |-> a]

\* a record left in output/events.json by an earlier run
OldRecord ==
  [event_name |-> <<"o", "l", "d">>, event_url |-> Url_e1,
   organizer_name |-> <<>>, organizer_url |-> <<>>, organizer_website |-> Null,
   email |-> Null, phone |-> Null, address |-> Null, facebook |-> Null,
   follower_count |-> 0, total_events |-> 0]

\* -------------------------------------------------------------- Init
\* process.env.PAGES, unset or set
PagesEnv == {Null, <<"1">>}

PAGES_INPUT(env) == Or(env, <<"1", "-", "2">>)

Init ==
  /\ API_KEY \in {<<>>, <<"k">>}
  /\ BASE_URL \in {<<>>, <<"b">>}
  /\ \E env \in PagesEnv :
       /\ pIn = PAGES_INPUT(env)
       /\ pOut = parsePages(PAGES_INPUT(env))
       /\ pBase = parsePages(PAGES_INPUT(env))
  /\ pPc = "parsed"
  /\ pEdits = 0
  /\ pc = "start"
  /\ page = 1
  /\ eventUrlSet = <<>>
  /\ eventUrls = <<>>
  /\ i = 1
  /\ allResults = <<>>
  /\ event = <<>> /\ organizer = <<>>
  /\ websiteContact = <<>> /\ facebookContact = <<>>
  /\ stage = "none" /\ sc = "idle" /\ jobUrls = <<>> /\ polls = 0
  /\ result = <<>>
  /\ file \in {NoFile, saveResults(<<OldRecord>>)}
  /\ archives = [path \in ArchivePaths |-> NoFile]
  /\ archiveCalls = 0 /\ saveCalls = 0 /\ posts = 0
  /\ scEnd = "none"
  /\ okUrls = {} /\ evOkUrls = {} /\ entered = {}
  /\ calls = 0 /\ abandoned = FALSE

\* ------------------------------------------------------------ scrape
\* if (urls.length > 3) urls = urls.slice(0, 3)
slice3(urls) == IF Len(urls) > 3 THEN SubSeq(urls, 1, 3) ELSE urls

\* await scrape(urls, prompt): the call, up to the POST
Call(st, urls, ent) ==
  /\ pc' = "scrape"
  /\ stage' = st
  /\ sc' = "post"
  /\ jobUrls' = slice3(urls)
  /\ polls' = 0
  /\ result' = <<>>
  /\ entered' = ent
  /\ scEnd' = "running"
  /\ calls' = calls + 1

\* main() goes on at p with no call of scrape in progress
Goto(p) ==
  /\ pc' = p
  /\ stage' = "none"
  /\ sc' = "idle"
  /\ jobUrls' = <<>>
  /\ polls' = 0
  /\ result' = <<>>
  /\ scEnd' = "none"
  /\ UNCHANGED <<entered, calls>>

\* what the POST can do: with no base URL, fetch("/scrape") rejects (the URL
\* is invalid) before any request is sent
PostOutcomes ==
  IF BASE_URL = <<>> THEN {"neterror"} ELSE {"accepted", "rejected", "neterror"}

\* the POST is accepted: a job is in flight and scrape starts polling
PostAccepted ==
  /\ pc = "scrape" /\ sc = "post"
  /\ "accepted" \in PostOutcomes
  /\ sc' = "poll"
  /\ posts' = posts + 1
  /\ UNCHANGED <<pc, stage, jobUrls, polls, result, entered, scEnd, calls, abandoned>>
  /\ UNCHANGED <<pvars, cfgVars, chainVars, storeVars, loopVars, archVars>>

\* if (!jobRes.ok) throw new Error(`API error: ${jobRes.status}`)
PostRejected ==
  /\ pc = "scrape" /\ sc = "post"
  /\ "rejected" \in PostOutcomes
  /\ sc' = "threw"
  /\ scEnd' = "rejected"
  /\ posts' = posts + 1
  /\ UNCHANGED <<pc, stage, jobUrls, polls, result, entered, calls, abandoned>>
  /\ UNCHANGED <<pvars, cfgVars, chainVars, storeVars, loopVars, archVars>>

\* fetch itself rejects (invalid URL, network failure)
PostError ==
  /\ pc = "scrape" /\ sc = "post"
  /\ "neterror" \in PostOutcomes
  /\ sc' = "threw"
  /\ scEnd' = "neterror"
  /\ UNCHANGED <<pc, stage, jobUrls, polls, result, entered, calls, jobVars>>
  /\ UNCHANGED <<pvars, cfgVars, chainVars, storeVars, loopVars, archVars>>

\* a poll with any status but completed and failed: log and poll again
PollPendingGivesUp ==
  /\ pc = "scrape" /\ sc = "poll"
  /\ IF polls < MaxPolls
       THEN /\ polls' = polls + 1
            /\ UNCHANGED <<sc, scEnd>>
       ELSE /\ sc' = "threw"
            /\ scEnd' = "timeout"
            /\ UNCHANGED polls
  /\ UNCHANGED <<pc, stage, jobUrls, result, entered, calls, jobVars>>
  /\ UNCHANGED <<pvars, cfgVars, chainVars, storeVars, loopVars, archVars>>

PollPending ==
  /\ pc = "scrape" /\ sc = "poll"
  /\ polls' = Min(polls + 1, MaxPolls)
  /\ UNCHANGED <<pc, stage, sc, jobUrls, result, entered, scEnd, calls, jobVars>>
  /\ UNCHANGED <<pvars, cfgVars, chainVars, storeVars, loopVars, archVars>>

Payloads(st) ==
  CASE st = "page" -> PagePayloads
    [] st = "event" -> EventPayloads
    [] st = "organizer" -> OrganizerPayloads
    [] st = "website" -> WebsitePayloads
    [] st = "facebook" -> FacebookPayloads

\* status completed: return Array.isArray(content) ? content[0] : content
PollCompleted ==
  /\ pc = "scrape" /\ sc = "poll"
  /\ \E p \in Payloads(stage), isArray \in BOOLEAN :
       LET content == IF isArray THEN <<p>> ELSE p
       IN  result' = IF isArray THEN content[1] ELSE content
  /\ sc' = "returned"
  /\ scEnd' = "completed"
  /\ UNCHANGED <<pc, stage, jobUrls, polls, entered, calls, jobVars>>
  /\ UNCHANGED <<pvars, cfgVars, chainVars, storeVars, loopVars, archVars>>

\* status failed: throw new Error(data.error || "Job failed")
PollFailed ==
  /\ pc = "scrape" /\ sc = "poll"
  /\ sc' = "threw"
  /\ scEnd' = "failed"
  /\ UNCHANGED <<pc, stage, jobUrls, polls, result, entered, calls, jobVars>>
  /\ UNCHANGED <<pvars, cfgVars, chainVars, storeVars, loopVars, archVars>>

\* the status request rejects, or its body is not JSON
PollError ==
  /\ pc = "scrape" /\ sc = "poll"
  /\ sc' = "threw"
  /\ scEnd' = "neterror"
  /\ abandoned' = TRUE
  /\ UNCHANGED <<pc, stage, jobUrls, polls, result, entered, posts, calls>>
  /\ UNCHANGED <<pvars, cfgVars, chainVars, storeVars, loopVars, archVars>>

\* -------------------------------------------------------------- main
SEARCH_URL == <<"s", "/">>

RECURSIVE NumberString(_)
NumberString(n) ==
  LET d == <<"0", "1", "2", "3", "4", "5", "6", "7", "8", "9">>[(n % 10) + 1]
  IN  IF n < 10 THEN <<d>> ELSE Append(NumberString(n \div 10), d)

\* page === 1 ? SEARCH_URL : `${SEARCH_URL}?page=${page}`
pageUrl(n) ==
  IF n = 1 THEN SEARCH_URL
  ELSE SEARCH_URL \o <<"?", "p", "a", "g", "e", "=">> \o NumberString(n)

\* if (!API_KEY) { ...; process.exit(1) }
StartNoArchive ==
  /\ pc = "start"
  /\ IF ~Truthy(API_KEY) THEN Goto("exit1") ELSE Goto("pages")
  /\ UNCHANGED <<pvars, cfgVars, chainVars, storeVars, loopVars, archVars, jobVars>>

Start ==
  /\ pc = "start"
  /\ IF ~Truthy(API_KEY) THEN Goto("exit1") ELSE Goto("archive")
  /\ UNCHANGED <<pvars, cfgVars, chainVars, storeVars, loopVars, archVars, jobVars>>

\* archiveExistingResults(); let allResults = []; const eventUrlSet = new Set()
Archive ==
  /\ pc = "archive"
  /\ \E now \in Times :
       LET left == archiveExistingResults(file, archives, now)
       IN  /\ file' = left.file
           /\ archives' = left.archives
  /\ archiveCalls' = archiveCalls + 1
  /\ allResults' = <<>>
  /\ eventUrlSet' = <<>>
  /\ page' = 1
  /\ Goto("pages")
  /\ UNCHANGED <<pvars, cfgVars, chainVars, saveCalls, eventUrls, i, okUrls,
                 evOkUrls, jobVars>>

\* for (const page of PAGES): the next page's call of scrape
PageBegin ==
  /\ pc = "pages"
  /\ page <= Len(PAGES)
  /\ Call("page", <<pageUrl(PAGES[page])>>, entered)
  /\ UNCHANGED <<pvars, cfgVars, chainVars, storeVars, loopVars, archVars, jobVars>>

\* a returned element is kept by u?.includes("/e/")
IsDetailUrl(u) == u # Null /\ includes(u, DetailMarker)

\* forEach(u => eventUrlSet.add(u))
RECURSIVE AddAll(_, _)
AddAll(set, us) ==
  IF us = <<>> THEN set ELSE AddAll(SetAdd(set, Head(us)), Tail(us))

\* urls.filter(u => u?.includes("/e/")).forEach(u => eventUrlSet.add(u))
AddUrlsUnfiltered(set, urls) == AddAll(set, urls)

AddUrls(set, urls) == AddAll(set, SelectSeq(urls, IsDetailUrl))

\* the page's scrape returned: const urls = result?.event_urls || []; the
\* filter throws on an element that is truthy and has no includes method,
\* before anything is added, and the page's catch takes it
PageResult ==
  /\ pc = "scrape" /\ sc = "returned" /\ stage = "page"
  /\ LET urls == IF "event_urls" \in DOMAIN result THEN result.event_urls ELSE <<>>
     IN  /\ eventUrlSet' =
              IF NonStr \in Range(urls) THEN eventUrlSet ELSE AddUrls(eventUrlSet, urls)
         /\ okUrls' = okUrls \cup {u \in Range(urls) : u # NonStr /\ IsDetailUrl(u)}
  /\ Goto("pageSleep")
  /\ UNCHANGED <<pvars, cfgVars, chainVars, storeVars, page, eventUrls, i,
                 evOkUrls, archVars, jobVars>>

\* the page's scrape threw: catch (err) { console.log(...) }
PageCatchRethrow ==
  /\ pc = "scrape" /\ sc = "threw" /\ stage = "page"
  /\ Goto("crashed")
  /\ UNCHANGED <<pvars, cfgVars, chainVars, storeVars, loopVars, archVars, jobVars>>

PageCatch ==
  /\ pc = "scrape" /\ sc = "threw" /\ stage = "page"
  /\ Goto("pageSleep")
  /\ UNCHANGED <<pvars, cfgVars, chainVars, storeVars, loopVars, archVars, jobVars>>

\* await sleep(1000) at the end of a page
PageSleep ==
  /\ pc = "pageSleep"
  /\ page' = page + 1
  /\ Goto("pages")
  /\ UNCHANGED <<pvars, cfgVars, chainVars, storeVars, eventUrlSet, eventUrls,
                 i, okUrls, evOkUrls, archVars, jobVars>>

\* const eventUrls = Array.from(eventUrlSet)
EndPhase1Early ==
  /\ pc = "pages"
  /\ page >= Len(PAGES)
  /\ eventUrls' = eventUrlSet
  /\ i' = 1
  /\ Goto("events")
  /\ UNCHANGED <<pvars, cfgVars, chainVars, storeVars, page, eventUrlSet,
                 okUrls, evOkUrls, archVars, jobVars>>

EndPhase1 ==
  /\ pc = "pages"
  /\ page > Len(PAGES)
  /\ eventUrls' = eventUrlSet
  /\ i' = 1
  /\ Goto("events")
  /\ UNCHANGED <<pvars, cfgVars, chainVars, storeVars, page, eventUrlSet,
                 okUrls, evOkUrls, archVars, jobVars>>

\* ------------------------------------------------- the event chain
\* const cleanFacebook = (fb) => ...: fb.includes is not a function when fb
\* is truthy and not a string, and the call throws
cleanFacebookThrows(fb) == Truthy(fb) /\ fb = NonStr

cleanFacebookKeepsAll(fb) == IF ~Truthy(fb) THEN Null ELSE fb

cleanFacebook(fb) ==
  IF ~Truthy(fb) THEN Null
  ELSE IF includes(fb, GenericProfile) THEN Null
  ELSE fb

\* const record = { ... }
RecordFallbackFirst(eventUrl, ev, org, web, fb) ==
  [event_name |-> Or(Field(ev, "event_name"), <<>>),
   event_url |-> eventUrl,
   organizer_name |-> Or(Field(org, "organizer_name"), Or(Field(ev, "organizer_name"), <<>>)),
   organizer_url |-> Or(Field(ev, "organizer_url"), <<>>),
   organizer_website |-> Or(Field(org, "website"), Null),
   email |-> Or(Field(fb, "email"), Or(Field(web, "email"), Null)),
   phone |-> Or(Field(fb, "phone"), Or(Field(web, "phone"), Null)),
   address |-> Or(Field(fb, "address"), Or(Field(web, "address"), Null)),
   facebook |-> Or(cleanFacebook(Field(web, "facebook")), Null),
   follower_count |-> OrNum(FieldNum(org, "follower_count"), 0),
   total_events |-> OrNum(FieldNum(org, "total_events"), 0)]

Record(eventUrl, ev, org, web, fb) ==
  [event_name |-> Or(Field(ev, "event_name"), <<>>),
   event_url |-> eventUrl,
   organizer_name |-> Or(Field(org, "organizer_name"), Or(Field(ev, "organizer_name"), <<>>)),
   organizer_url |-> Or(Field(ev, "organizer_url"), <<>>),
   organizer_website |-> Or(Field(org, "website"), Null),
   email |-> Or(Field(web, "email"), Or(Field(fb, "email"), Null)),
   phone |-> Or(Field(web, "phone"), Or(Field(fb, "phone"), Null)),
   address |-> Or(Field(web, "address"), Or(Field(fb, "address"), Null)),
   facebook |-> Or(cleanFacebook(Field(web, "facebook")), Null),
   follower_count |-> OrNum(FieldNum(org, "follower_count"), 0),
   total_events |-> OrNum(FieldNum(org, "total_events"), 0)]

\* the stage guards, in the order main() evaluates them after stage `from`
NextStageFiltered(from, ev, org, web) ==
  IF from = "event" /\ Truthy(Field(ev, "organizer_url")) THEN "organizer"
  ELSE IF from \in {"event", "organizer"} /\ Truthy(Field(org, "website"))
    THEN "website"
  ELSE IF /\ from \in {"event", "organizer", "website"}
          /\ Truthy(cleanFacebook(Field(web, "facebook")))
          /\ ~Truthy(Field(web, "email"))
    THEN "facebook"
  ELSE "record"

NextStageAnyLink(from, ev, org, web) ==
  IF from = "event" /\ Truthy(Field(ev, "organizer_url")) THEN "organizer"
  ELSE IF from \in {"event", "organizer"} /\ Truthy(Field(org, "website"))
    THEN "website"
  ELSE IF /\ from \in {"event", "organizer", "website"}
          /\ Truthy(Field(web, "facebook"))
    THEN "facebook"
  ELSE "record"

NextStage(from, ev, org, web) ==
  IF from = "event" /\ Truthy(Field(ev, "organizer_url")) THEN "organizer"
  ELSE IF from \in {"event", "organizer"} /\ Truthy(Field(org, "website"))
    THEN "website"
  ELSE IF /\ from \in {"event", "organizer", "website"}
          /\ Truthy(Field(web, "facebook"))
          /\ ~Truthy(Field(web, "email"))
    THEN "facebook"
  ELSE "record"

StageUrl(st, ev, org, web) ==
  CASE st = "organizer" -> Field(ev, "organizer_url")
    [] st = "website" -> Field(org, "website")
    [] st = "facebook" -> Field(web, "facebook")

\* the end of the try block: the record is built, pushed and saved, unless
\* cleanFacebook throws and the item's catch takes it
PushAndSaveOverwrites(ev, org, web, fb) ==
  /\ IF cleanFacebookThrows(Field(web, "facebook"))
       THEN UNCHANGED storeVars
       ELSE LET results == <<Record(eventUrls[i], ev, org, web, fb)>>
            IN  /\ allResults' = results
                /\ file' = saveResults(results)
                /\ saveCalls' = saveCalls + 1
  /\ Goto("eventSleep")

PushAndSave(ev, org, web, fb) ==
  /\ IF cleanFacebookThrows(Field(web, "facebook"))
       THEN UNCHANGED storeVars
       ELSE LET results == Append(allResults, Record(eventUrls[i], ev, org, web, fb))
            IN  /\ allResults' = results
                /\ file' = saveResults(results)
                /\ saveCalls' = saveCalls + 1
  /\ Goto("eventSleep")

\* main() from the end of stage `from` to its next await
Continue(from, ev, org, web, fb) ==
  /\ event' = ev
  /\ organizer' = org
  /\ websiteContact' = web
  /\ facebookContact' = fb
  /\ LET st == NextStage(from, ev, org, web)
     IN  IF st = "record"
           THEN PushAndSave(ev, org, web, fb)
           ELSE /\ Call(st, <<StageUrl(st, ev, org, web)>>, entered \cup {st})
                /\ UNCHANGED storeVars

\* for (let i = 0; i < eventUrls.length; i++): the event-stage call
EventBegin ==
  /\ pc = "events"
  /\ i <= Len(eventUrls)
  /\ event' = <<>>
  /\ organizer' = <<>>
  /\ websiteContact' = <<>>
  /\ facebookContact' = <<>>
  /\ Call("event", <<eventUrls[i]>>, {"event"})
  /\ UNCHANGED <<pvars, cfgVars, storeVars, loopVars, archVars, jobVars>>

EventResult ==
  /\ pc = "scrape" /\ sc = "returned" /\ stage = "event"
  /\ evOkUrls' = evOkUrls \cup {eventUrls[i]}
  /\ Continue("event", result, <<>>, <<>>, <<>>)
  /\ UNCHANGED <<pvars, cfgVars, page, eventUrlSet, eventUrls, i, okUrls,
                 archVars, jobVars>>

\* the outer catch: the item is given up
EventCatchNoDelay ==
  /\ pc = "scrape" /\ sc = "threw" /\ stage = "event"
  /\ i' = i + 1
  /\ Goto("events")
  /\ UNCHANGED <<pvars, cfgVars, chainVars, storeVars, page, eventUrlSet,
                 eventUrls, okUrls, evOkUrls, archVars, jobVars>>

EventCatchRetries ==
  /\ pc = "scrape" /\ sc = "threw" /\ stage = "event"
  /\ Call("event", <<eventUrls[i]>>, {"event"})
  /\ UNCHANGED <<pvars, cfgVars, chainVars, storeVars, loopVars, archVars, jobVars>>

EventCatch ==
  /\ pc = "scrape" /\ sc = "threw" /\ stage = "event"
  /\ Goto("eventSleep")
  /\ UNCHANGED <<pvars, cfgVars, chainVars, storeVars, loopVars, archVars, jobVars>>

OrganizerResult ==
  /\ pc = "scrape" /\ sc = "returned" /\ stage = "organizer"
  /\ Continue("organizer", event, result, <<>>, <<>>)
  /\ UNCHANGED <<pvars, cfgVars, loopVars, archVars, jobVars>>

\* the organizer stage's own catch: organizer stays {} and main() goes on
OrganizerCatchDropsItem ==
  /\ pc = "scrape" /\ sc = "threw" /\ stage = "organizer"
  /\ Goto("eventSleep")
  /\ UNCHANGED <<pvars, cfgVars, chainVars, storeVars, loopVars, archVars, jobVars>>

OrganizerCatch ==
  /\ pc = "scrape" /\ sc = "threw" /\ stage = "organizer"
  /\ Continue("organizer", event, <<>>, <<>>, <<>>)
  /\ UNCHANGED <<pvars, cfgVars, loopVars, archVars, jobVars>>

\* websiteContact = await scrape(...) || {}
WebsiteResult ==
  /\ pc = "scrape" /\ sc = "returned" /\ stage = "website"
  /\ Continue("website", event, organizer, result, <<>>)
  /\ UNCHANGED <<pvars, cfgVars, loopVars, archVars, jobVars>>

WebsiteCatch ==
  /\ pc = "scrape" /\ sc = "threw" /\ stage = "website"
  /\ Continue("website", event, organizer, <<>>, <<>>)
  /\ UNCHANGED <<pvars, cfgVars, loopVars, archVars, jobVars>>

\* facebookContact = await scrape(...) || {}
FacebookResult ==
  /\ pc = "scrape" /\ sc = "returned" /\ stage = "facebook"
  /\ Continue("facebook", event, organizer, websiteContact, result)
  /\ UNCHANGED <<pvars, cfgVars, loopVars, archVars, jobVars>>

FacebookCatch ==
  /\ pc = "scrape" /\ sc = "threw" /\ stage = "facebook"
  /\ Continue("facebook", event, organizer, websiteContact, <<>>)
  /\ UNCHANGED <<pvars, cfgVars, loopVars, archVars, jobVars>>

\* await sleep(1000) at the end of an event
EventSleep ==
  /\ pc = "eventSleep"
  /\ i' = i + 1
  /\ Goto("events")
  /\ UNCHANGED <<pvars, cfgVars, chainVars, storeVars, page, eventUrlSet,
                 eventUrls, okUrls, evOkUrls, archVars, jobVars>>

\* console.log(`Done! Scraped ${allResults.length} events. ...`)
FinishSaves ==
  /\ pc = "events"
  /\ i > Len(eventUrls)
  /\ file' = saveResults(allResults)
  /\ saveCalls' = saveCalls + 1
  /\ Goto("done")
  /\ UNCHANGED <<pvars, cfgVars, chainVars, allResults, loopVars, archVars, jobVars>>

Finish ==
  /\ pc = "events"
  /\ i > Len(eventUrls)
  /\ Goto("done")
  /\ UNCHANGED <<pvars, cfgVars, chainVars, storeVars, loopVars, archVars, jobVars>>

Next ==
  \/ Start \/ Archive
  \/ PageBegin \/ PageResult \/ PageCatch \/ PageSleep \/ EndPhase1
  \/ EventBegin \/ EventResult \/ EventCatch
  \/ OrganizerResult \/ OrganizerCatch
  \/ WebsiteResult \/ WebsiteCatch
  \/ FacebookResult \/ FacebookCatch
  \/ EventSleep \/ Finish
  \/ PostAccepted \/ PostRejected \/ PostError
  \/ PollPending \/ PollCompleted \/ PollFailed \/ PollError

Spec == Init /\ [][Next]_vars

\* the steps main() takes by itself: synchronous code and the pacing timers
MainStep ==
  \/ Start \/ Archive
  \/ PageBegin \/ PageResult \/ PageCatch \/ PageSleep \/ EndPhase1
  \/ EventBegin \/ EventResult \/ EventCatch
  \/ OrganizerResult \/ OrganizerCatch
  \/ WebsiteResult \/ WebsiteCatch
  \/ FacebookResult \/ FacebookCatch
  \/ EventSleep \/ Finish

\* Spec with a scheduler that runs main()'s code, a service that answers
\* every POST, and jobs that all reach a terminal status
FairSpec ==
  /\ Spec
  /\ WF_vars(MainStep)
  /\ WF_vars(PostAccepted \/ PostRejected \/ PostError)
  /\ WF_vars(PollCompleted \/ PollFailed \/ PollError)

\* ------------------------------------------------- parser harness
\* characters of the enumerated page selectors
Alphabet == {"0", "1", "2", "3", ",", "-", " ", "a"}

Strings(n) == UNION {[1..k -> Alphabet] : k \in 0..n}

\* tokens offered to AddCovered
CoverTokens ==
  {<<"1">>, <<"2">>, <<"3">>, <<"1", "-", "2">>, <<"3", "-", "1">>, <<"a">>, <<"0">>}

\* the pipeline does not run while the parser is exercised
PipelineIdle ==
  /\ API_KEY = <<>> /\ BASE_URL = <<>>
  /\ pc = "start" /\ page = 1 /\ eventUrlSet = <<>> /\ eventUrls = <<>> /\ i = 1
  /\ allResults = <<>>
  /\ event = <<>> /\ organizer = <<>>
  /\ websiteContact = <<>> /\ facebookContact = <<>>
  /\ stage = "none" /\ sc = "idle" /\ jobUrls = <<>> /\ polls = 0
  /\ result = <<>>
  /\ file = NoFile
  /\ archives = [path \in ArchivePaths |-> NoFile]
  /\ archiveCalls = 0 /\ saveCalls = 0 /\ posts = 0
  /\ scEnd = "none"
  /\ okUrls = {} /\ evOkUrls = {} /\ entered = {}
  /\ calls = 0 /\ abandoned = FALSE

pipeVars == <<cfgVars, chainVars, callVars, storeVars, loopVars, archVars, jobVars>>

PInit ==
  /\ pPc = "new"
  /\ pIn \in Strings(MaxLen)
  /\ pOut = <<>>
  /\ pBase = <<>>
  /\ pEdits = 0
  /\ PipelineIdle

\* const PAGES = parsePages(PAGES_INPUT)
Parse ==
  /\ pPc = "new"
  /\ pPc' = "parsed"
  /\ pOut' = parsePages(pIn)
  /\ pBase' = parsePages(pIn)
  /\ UNCHANGED <<pIn, pEdits, pipeVars>>

Reparse(input) ==
  /\ pIn' = input
  /\ pOut' = parsePages(input)
  /\ pEdits' = pEdits + 1
  /\ UNCHANGED <<pPc, pBase, pipeVars>>

Swap(s, a, b) == [s EXCEPT ![a] = s[b], ![b] = s[a]]

\* the same selector with two of its comma-separated tokens exchanged
SwapTokens ==
  /\ pPc = "parsed"
  /\ pEdits < MaxEdits
  /\ LET toks == split(trim(pIn), ",")
     IN  \E a, b \in 1..Len(toks) :
           /\ a < b
           /\ toks[a] # toks[b]
           /\ Reparse(join(Swap(toks, a, b)))

\* the same selector with one of its tokens written once more at the end
RepeatToken ==
  /\ pPc = "parsed"
  /\ pEdits < MaxEdits
  /\ LET toks == split(trim(pIn), ",")
     IN  \E a \in 1..Len(toks) : Reparse(pIn \o <<",">> \o toks[a])

\* the same selector with one more token whose pages it already covers
AddCovered ==
  /\ pPc = "parsed"
  /\ pEdits < MaxEdits
  /\ \E t \in CoverTokens :
       /\ Range(parsePages(t)) \subseteq Range(pOut)
       /\ Reparse(pIn \o <<",">> \o t)

PNext == Parse \/ SwapTokens \/ RepeatToken \/ AddCovered

ParseSpec == PInit /\ [][PNext]_vars

\* ============================================================ claims
Present(v) == v # Null /\ v # <<>>

\* JSON.parse of the text JSONstringify writes
JSONdecode(jv) == IF jv[1] = "null" THEN Null ELSE jv[2]

JSONparse(content) ==
  [n \in 1..Len(content) |->
     [k \in {content[n][m][1] : m \in 1..Len(content[n])} |->
        JSONdecode(content[n][CHOOSE m \in 1..Len(content[n]) : content[n][m][1] = k][2])]]

\* the event URLs whose chain is over: every one before i, and i itself
\* during the pacing delay that ends its iteration
FinishedUrls ==
  {eventUrls[k] : k \in {n \in 1..Len(eventUrls) : n < i \/ (n = i /\ pc = "eventSleep")}}

RecordUrls == {allResults[n].event_url : n \in 1..Len(allResults)}

\* C1: once saveResults has run, output/events.json is one complete array
\* that parses to exactly the records appended so far, in append order, and
\* holds no record of an event whose chain is still running or was given up.
C1_FileHoldsAppended ==
  saveCalls > 0 =>
    /\ file.exists
    /\ \A n \in 1..Len(file.content) :
         [m \in 1..Len(file.content[n]) |-> file.content[n][m][1]] = RecordKeys
    /\ JSONparse(file.content) = allResults
    /\ \A n \in 1..Len(file.content) :
         JSONparse(file.content)[n].event_url \in FinishedUrls \cap evOkUrls

\* a first record is in the file while the second event's chain is in flight
C1_Witness ==
  /\ saveCalls = 1
  /\ pc = "scrape" /\ stage = "website" /\ sc = "poll"
  /\ i = 2
  /\ Len(file.content) = 1

\* C2: for every event URL whose chain is over, a record with that
\* event_url was appended exactly when its event-stage scrape returned; the
\* failure of a later stage never drops the item.
C2_RecordIffEventStage ==
  /\ \A u \in FinishedUrls : (u \in evOkUrls) <=> (u \in RecordUrls)
  /\ RecordUrls \subseteq {file.content[n][2][2][2] : n \in 1..Len(file.content)}

\* C3: when the API key or the API base URL is missing, the run stops at the
\* configuration check with a non-zero status: nothing is archived, no
\* scrape is started, nothing is written.
C3_MissingConfigStops ==
  (~Present(API_KEY) \/ ~Present(BASE_URL)) =>
    /\ pc \in {"start", "exit1"}
    /\ archiveCalls = 0
    /\ posts = 0
    /\ saveCalls = 0

\* C4: no failed scrape ends the run.  When every POST is answered and every
\* job reaches a terminal status, a run that passed the configuration check
\* reaches the end of main(); no error leaves main(); the loops advance one
\* unit at a time, from the pacing delay that ends the unit, so the end is
\* reached with every selected page and every discovered event URL visited.
C4_RunCompletes ==
  /\ [](pc # "crashed")
  /\ [][/\ page' # page => (pc = "pageSleep" /\ page' = page + 1)
        /\ i' # i => (pc = "eventSleep" /\ i' = i + 1)]_vars
  /\ [](pc = "done" => (page = Len(PAGES) + 1 /\ i = Len(eventUrls) + 1))
  /\ (Present(API_KEY) ~> pc = "done")

\* the run ended with both events visited although the event-stage scrape of
\* one of them had thrown
C4_Witness ==
  /\ pc = "done"
  /\ Len(PAGES) = 2
  /\ okUrls = {Url_e1, Url_e2}
  /\ evOkUrls = {Url_e2}
  /\ Len(allResults) = 1

\* C5: archiveExistingResults leaves everything alone when output/events.json
\* does not exist; when it exists, its content is afterwards at one
\* output/events-<timestamp>.json path, unchanged, the other archives are
\* untouched and output/events.json is gone; it stays absent until
\* saveResults runs.
C5_ArchiveMoves ==
  /\ [][archiveCalls' # archiveCalls =>
          IF ~file.exists
            THEN file' = file /\ archives' = archives
            ELSE /\ ~file'.exists
                 /\ \E path \in ArchivePaths :
                      /\ archives'[path] = file
                      /\ \A q \in ArchivePaths \ {path} : archives'[q] = archives[q]]_vars
  /\ []((archiveCalls > 0 /\ saveCalls = 0) => ~file.exists)

\* the earlier run's file sits at an archive path and the run has not saved yet
C5_Witness ==
  /\ archiveCalls = 1
  /\ saveCalls = 0
  /\ pc = "scrape"
  /\ \E path \in ArchivePaths : archives[path] = saveResults(<<OldRecord>>)

\* C6: in a run that passed the configuration check archiveExistingResults
\* runs once: it has run before any scrape is started and before any save,
\* and it never runs a second time.
C6_ArchiveOnce ==
  /\ archiveCalls <= 1
  /\ (pc = "scrape" \/ posts > 0 \/ saveCalls > 0) => archiveCalls = 1
  /\ pc \notin {"start", "exit1", "archive"} => archiveCalls = 1

\* a finished run that submitted jobs and saved twice
C6_Witness ==
  /\ pc = "done"
  /\ posts > 2
  /\ saveCalls = 2
  /\ archiveCalls = 1

\* what the claim counts as a valid token: an integer token is a non-empty
\* run of digits, a range token is two of them around one dash
AllDigits(t) == t # <<>> /\ \A k \in 1..Len(t) : IsDigit(t[k])

RECURSIVE Decimal(_)
Decimal(t) ==
  IF t = <<>> THEN 0
  ELSE 10 * Decimal(SubSeq(t, 1, Len(t) - 1)) + DigitVal(t[Len(t)])

TokenPages(t) ==
  IF AllDigits(t) THEN {n \in {Decimal(t)} : n > 0}
  ELSE LET ends == split(t, "-")
       IN  IF /\ Len(ends) = 2
              /\ AllDigits(trim(ends[1]))
              /\ AllDigits(trim(ends[2]))
             THEN LET a == Decimal(trim(ends[1]))
                      b == Decimal(trim(ends[2]))
                  IN  {n \in (IF a <= b THEN a ELSE b)..(IF a <= b THEN b ELSE a) : n > 0}
             ELSE {}

ValidPages(input) == UNION {TokenPages(trim(t)) : t \in Range(split(input, ","))}

Ascending(s) == \A k \in 1..(Len(s) - 1) : s[k] < s[k + 1]

\* C7: parsePages returns a strictly ascending sequence of positive integers
\* holding exactly the pages of the valid tokens: n for an integer token
\* n > 0, min(a,b)..max(a,b) for a range token a-b; an empty, non-numeric or
\* non-positive token, or a range with an unparseable endpoint, adds nothing.
C7_ParseExact ==
  pPc = "parsed" =>
    /\ Ascending(pOut)
    /\ \A k \in 1..Len(pOut) : pOut[k] > 0
    /\ Range(pOut) = ValidPages(pIn)

\* C8: parsePages depends only on the set of tokens: after exchanging two
\* tokens, repeating a token or adding a token whose pages are already
\* covered, it returns the same sequence as for the selector it started from.
C8_TokenSetOnly == pPc = "parsed" => pOut = pBase

\* "3,1" was rewritten as "1,3" and still gives [1, 3]
C8_Witness ==
  /\ pPc = "parsed"
  /\ pEdits = 1
  /\ pIn = <<"1", ",", "3">>
  /\ pOut = <<1, 3>>

Phase1Over ==
  pc \in {"events", "eventSleep", "done"} \/ (pc = "scrape" /\ stage # "page")

\* C9: when phase 1 is over, the event URLs are exactly the distinct URLs
\* containing "/e/" that were returned by the pages whose scrape returned,
\* each once.
C9_UrlSet ==
  Phase1Over =>
    /\ Range(eventUrls) = okUrls
    /\ Cardinality(Range(eventUrls)) = Len(eventUrls)
    /\ \A u \in Range(eventUrls) : includes(u, DetailMarker)

\* the record of the event at i, once its chain has pushed one
Emitted ==
  /\ pc = "eventSleep"
  /\ allResults # <<>>
  /\ allResults[Len(allResults)].event_url = eventUrls[i]

FirstPresent(a, b, c) == IF Present(a) THEN a ELSE IF Present(b) THEN b ELSE c

FirstNumber(a, c) == IF a # NullNum /\ a # 0 THEN a ELSE c

\* C10: in the record just emitted, email, phone and address are the
\* website-stage value when present, else the fallback-stage value when
\* present, else null; organizer_name is the organizer-stage value, else the
\* event-stage value, else ""; follower_count and total_events are the
\* organizer-stage value, else 0.  When the website stage yielded an email,
\* the fallback stage was not run and contributes to none of the three.
C10_Fusion ==
  Emitted =>
    LET r == allResults[Len(allResults)]
        w == websiteContact
        f == facebookContact
    IN  /\ \A a \in {"email", "phone", "address"} :
             r[a] = FirstPresent(Field(w, a), Field(f, a), Null)
        /\ r.organizer_name =
             FirstPresent(Field(organizer, "organizer_name"),
                          Field(event, "organizer_name"), <<>>)
        /\ r.follower_count = FirstNumber(FieldNum(organizer, "follower_count"), 0)
        /\ r.total_events = FirstNumber(FieldNum(organizer, "total_events"), 0)
        /\ Present(Field(w, "email")) =>
             /\ "facebook" \notin entered
             /\ f = <<>>
             /\ \A a \in {"email", "phone", "address"} :
                  r[a] = (IF Present(Field(w, a)) THEN Field(w, a) ELSE Null)

\* the website gave a phone and no email, the fallback gave the email
C10_Witness ==
  /\ Emitted
  /\ "facebook" \in entered
  /\ allResults[Len(allResults)].email = <<"f", "@">>
  /\ allResults[Len(allResults)].phone = <<"w", "1">>
  /\ allResults[Len(allResults)].organizer_name = <<"E", "o">>

\* C11: in the record just emitted, facebook is null or the social link the
\* website stage returned for the item; it is never the link the fallback
\* stage returned; it is null when the website-stage link contains
\* "facebook.com/Eventbrite", when the website stage ran no scrape, and when
\* the website stage returned no link.
C11_FacebookField ==
  Emitted =>
    LET r == allResults[Len(allResults)]
        link == Field(websiteContact, "facebook")
        other == Field(facebookContact, "facebook")
    IN  /\ r.facebook \in {Null, link}
        /\ (Present(other) /\ other # link) => r.facebook # other
        /\ includes(link, GenericProfile) => r.facebook = Null
        /\ "website" \notin entered => r.facebook = Null
        /\ ~Present(link) => r.facebook = Null

\* the website stage returned the generic profile link and the record has
\* no facebook
C11_Witness ==
  /\ Emitted
  /\ "website" \in entered
  /\ Field(websiteContact, "facebook") = Url_fbGeneric
  /\ allResults[Len(allResults)].facebook = Null

\* a step in which main() calls scrape for stage st
Submits(st) == sc' = "post" /\ sc # "post" /\ stage' = st

\* C12: the organizer stage is submitted only from an event stage whose
\* scrape returned a result with an organizer URL; the website stage only
\* from an organizer stage whose scrape returned a result with a website; the
\* fallback stage only from a website stage whose scrape returned a result
\* with a social link and no email.  So the fallback stage is never
\* submitted for an item whose website stage was skipped or threw.
C12_StageGuards ==
  /\ [][Submits("organizer") =>
          /\ stage = "event" /\ sc = "returned"
          /\ Truthy(Field(result, "organizer_url"))]_vars
  /\ [][Submits("website") =>
          /\ stage = "organizer" /\ sc = "returned"
          /\ Truthy(Field(result, "website"))]_vars
  /\ [][Submits("facebook") =>
          /\ stage = "website" /\ sc = "returned"
          /\ Truthy(Field(result, "facebook"))
          /\ ~Truthy(Field(result, "email"))]_vars
  /\ [][(stage = "website" /\ sc = "threw") => ~Submits("facebook")]_vars
  /\ []("facebook" \in entered => "website" \in entered)
  /\ []("website" \in entered => "organizer" \in entered)
  /\ []("organizer" \in entered => "event" \in entered)

\* the fallback stage is being submitted for an item whose website stage
\* returned a link and no email
C12_Witness ==
  /\ pc = "scrape" /\ stage = "facebook" /\ sc = "post"
  /\ entered = {"event", "organizer", "website", "facebook"}
  /\ ~Truthy(Field(websiteContact, "email"))
  /\ jobUrls = <<Url_fbOrg>>

\* C13: when the organizer-stage scrape throws (it was called, so the event
\* stage had yielded an organizer URL), the next step of main() appends a
\* record with event_name, event_url and organizer_url of the event stage,
\* organizer_website, email, phone, address and facebook null,
\* follower_count and total_events 0, and calls neither the website stage
\* nor the fallback stage for the item.
C13_OrganizerThrows ==
  [][(pc = "scrape" /\ stage = "organizer" /\ sc = "threw" /\ sc' # "threw") =>
       /\ Truthy(Field(event, "organizer_url"))
       /\ pc' = "eventSleep"
       /\ ~Submits("website") /\ ~Submits("facebook")
       /\ entered' = {"event", "organizer"}
       /\ Len(allResults') = Len(allResults) + 1
       /\ SubSeq(allResults', 1, Len(allResults)) = allResults
       /\ LET r == allResults'[Len(allResults')]
          IN  /\ r.event_url = eventUrls[i]
              /\ r.event_name = Or(Field(event, "event_name"), <<>>)
              /\ r.organizer_url = Field(event, "organizer_url")
              /\ r.organizer_website = Null
              /\ r.follower_count = 0 /\ r.total_events = 0
              /\ r.email = Null /\ r.phone = Null
              /\ r.address = Null /\ r.facebook = Null]_vars

\* the record of an item whose organizer stage threw
C13_Witness ==
  /\ Emitted
  /\ entered = {"event", "organizer"}
  /\ organizer = <<>>
  /\ allResults[Len(allResults)].event_name = <<"E", "v">>
  /\ allResults[Len(allResults)].organizer_url = Url_o3
  /\ allResults[Len(allResults)].organizer_website = Null

\* what holds of a call of scrape whatever ends it: a POST that does not
\* lead to polling throws without a poll; a returned call returns one
\* payload of the job, the first item of an array content; while scrape
\* polls, main() stands still, a poll either leaves scrape polling or ends
\* it, and one more pending poll is always possible, however many came before
ScrapeLifecycle ==
  /\ [][(sc = "post" /\ sc' # "post") =>
          \/ sc' = "poll" /\ scEnd' = "running"
          \/ sc' = "threw" /\ polls' = 0]_vars
  /\ [][sc = "poll" =>
          /\ pc' = "scrape" /\ stage' = stage
          /\ UNCHANGED <<chainVars, storeVars, loopVars>>
          /\ \/ sc' = "poll" /\ scEnd' = "running"
             \/ sc' = "returned" /\ scEnd' = "completed" /\ result' \in Payloads(stage)
             \/ sc' = "threw" /\ scEnd' # "running"]_vars
  /\ [](sc = "poll" => ENABLED PollPending)
  /\ [](sc \in {"post", "poll"} <=> scEnd = "running")
  /\ [](sc = "returned" => scEnd = "completed")

\* C14 as stated: a call of scrape ends in one of three ways only: the
\* submit call is rejected and scrape throws without polling, a poll reports
\* completed and scrape returns the content, or a poll reports failed and
\* scrape throws; any other poll status keeps it polling, without bound.
C14_ThreeEndings ==
  /\ ScrapeLifecycle
  /\ [](sc = "threw" => scEnd \in {"rejected", "failed"})

\* C14 amended: a call of scrape ends in one of four ways: the three of the
\* claim, and a request that itself fails (fetch rejects, or a body is not
\* JSON), at the POST or at any poll, which makes scrape throw that error;
\* any other poll status keeps it polling, without bound.
C14_FourEndings ==
  /\ ScrapeLifecycle
  /\ [](sc = "threw" => scEnd \in {"rejected", "failed", "neterror"})
  /\ [][(sc = "post" /\ sc' = "threw") => scEnd' \in {"rejected", "neterror"}]_vars
  /\ [][(sc = "poll" /\ sc' = "threw") => scEnd' \in {"failed", "neterror"}]_vars

\* a status request failed after a poll that reported the job in progress
C14_Witness ==
  /\ pc = "scrape" /\ sc = "threw"
  /\ scEnd = "neterror"
  /\ polls > 0
  /\ posts > 0

\* jobs the service accepted that the pipeline has not seen completed or
\* failed: the one scrape is polling, and at least one more once a failed
\* status request has made scrape leave a job behind
JobsInFlight ==
  (IF sc = "poll" THEN 1 ELSE 0) + (IF abandoned THEN 1 ELSE 0)

\* calls of scrape follow one another: a call starts only when none is in
\* progress, a job is submitted only by the POST of the call in progress;
\* a page is called from the page loop, for the page at hand; every call of
\* phase 2 comes after the last page; an event's chain starts from the event
\* loop with no call in progress, and the loop moves to the next event only
\* from the delay that ends the chain
OneCallAtATime ==
  /\ [][(sc' = "post" /\ sc # "post") =>
          /\ sc \in {"idle", "returned", "threw"}
          /\ calls' = calls + 1]_vars
  /\ [][posts' # posts => (sc = "post" /\ posts' = posts + 1)]_vars
  /\ [][Submits("page") =>
          /\ pc = "pages" /\ sc = "idle" /\ page <= Len(PAGES)
          /\ jobUrls' = <<pageUrl(PAGES[page])>>]_vars
  /\ []((pc = "scrape" /\ stage = "page") => (eventUrls = <<>> /\ allResults = <<>>))
  /\ []((pc = "scrape" /\ stage # "page") =>
          /\ page > Len(PAGES)
          /\ i <= Len(eventUrls)
          /\ "event" \in entered)
  /\ [][Submits("event") =>
          /\ pc = "events" /\ sc = "idle"
          /\ jobUrls' = <<eventUrls[i]>>]_vars
  /\ [][i' # i => pc = "eventSleep"]_vars
  /\ [][page' # page => pc = "pageSleep"]_vars

\* C15 as stated: at every point at most one job is in flight, submitted and
\* not yet seen completed or failed by the pipeline; calls of scrape, pages
\* and event chains follow one another.
C15_OneJobInFlight ==
  /\ [](JobsInFlight <= 1)
  /\ OneCallAtATime

\* C15 amended: at every point at most one call of scrape is in progress and
\* it polls at most one job; calls of scrape, pages and event chains follow
\* one another; a job in flight that is not the one being polled was left
\* behind by a call of scrape that a failed status request ended.
C15_OneCallInProgress ==
  /\ OneCallAtATime
  /\ [](JobsInFlight > 1 => abandoned)
  /\ [](JobsInFlight > 0 => posts > 0)
  /\ [][abandoned' # abandoned =>
          /\ sc = "poll" /\ sc' = "threw" /\ scEnd' = "neterror"]_vars

\* a job is polled in phase 2 while a job left behind is still in flight
C15_Witness ==
  /\ JobsInFlight = 2
  /\ pc = "scrape" /\ stage = "organizer"
  /\ posts >= 2

\* events whose chain is over, and the calls of scrape made for them
EventsOver == (i - 1) + (IF pc = "eventSleep" THEN 1 ELSE 0)

CallsOfEventsOver ==
  calls - Len(PAGES) - (IF pc = "scrape" THEN Cardinality(entered) ELSE 0)

\* C16: no scrape is retried and no result is reused.  Every call of scrape
\* makes one submit request and every submit request belongs to a call of
\* its own; a stage is called at most once for an item and a page once,
\* whatever became of the job; a call hands back only what its own job
\* completed with.  So the submit requests of a run number one per selected
\* page plus, for every event URL, between 1 and 4: at most
\* |pages| + 4 x |event URLs|.
C16_NoRetry ==
  /\ [][(sc' = "post" /\ sc # "post") =>
          /\ calls' = calls + 1
          /\ result' = <<>> /\ polls' = 0
          /\ stage' \in {"organizer", "website", "facebook"} =>
               (stage' \notin entered /\ entered' = entered \cup {stage'})]_vars
  /\ [][calls' # calls => (sc' = "post" /\ sc # "post")]_vars
  /\ [][sc = "post" => sc' \in {"post", "poll", "threw"}]_vars
  /\ [][sc' = "returned" => (sc \in {"poll", "returned"} /\ calls' = calls)]_vars
  /\ [](posts <= calls)
  /\ [](pc \in {"start", "exit1", "archive"} => calls = 0)
  /\ []((pc \in {"pages", "pageSleep"} \/ (pc = "scrape" /\ stage = "page")) =>
          calls = (page - 1) + (IF pc = "pages" THEN 0 ELSE 1))
  /\ [](Phase1Over =>
          /\ EventsOver <= CallsOfEventsOver
          /\ CallsOfEventsOver <= 4 * EventsOver
          /\ Cardinality(entered) <= 4)
  /\ [](pc = "done" =>
          /\ calls >= Len(PAGES) + Len(eventUrls)
          /\ calls <= Len(PAGES) + 4 * Len(eventUrls))
  /\ [](calls <= Len(PAGES) + 4 * Len(eventUrlSet))

\* a finished run that went through all four stages for both of its events
C16_Witness ==
  /\ pc = "done"
  /\ Len(PAGES) = 2
  /\ Len(eventUrls) = 2
  /\ calls = 10

IsPrefix(s, t) == Len(s) <= Len(t) /\ SubSeq(t, 1, Len(s)) = s

\* C17: the result collection only grows at its end, by one record at a
\* time: every value it takes has the value before as a prefix; no two of
\* its records have the same event_url; it never holds more records than
\* there are discovered event URLs, nor a record of a URL that was not
\* discovered.
C17_AppendOnly ==
  /\ [][/\ IsPrefix(allResults, allResults')
        /\ Len(allResults') <= Len(allResults) + 1]_vars
  /\ [](\A m, n \in 1..Len(allResults) :
          allResults[m].event_url = allResults[n].event_url => m = n)
  /\ [](Len(allResults) <= Len(eventUrls))
  /\ [](Len(allResults) <= Len(eventUrlSet))
  /\ [](RecordUrls \subseteq Range(eventUrls))

\* the second record was appended after the first
C17_Witness ==
  /\ Len(allResults) = 2
  /\ allResults[1].event_url = Url_e1
  /\ allResults[2].event_url = Url_e2
  /\ pc = "eventSleep"

\* C18: main() leaves the scrape calls of a page only into the pacing delay
\* of the page, and those of an event only into the pacing delay of the
\* event, whether the last call returned or threw; the delay is the only
\* step that moves a loop to its next unit, so the first call of a unit that
\* is not the first of its phase is made from the loop head that the delay
\* of the unit before led to.
C18_PacingDelay ==
  /\ [][(pc = "scrape" /\ stage = "page" /\ pc' # "scrape") =>
          (pc' = "pageSleep" /\ page' = page)]_vars
  /\ [][(pc = "scrape" /\ stage # "page" /\ pc' # "scrape") =>
          (pc' = "eventSleep" /\ i' = i)]_vars
  /\ [][pc = "pageSleep" => (pc' = "pages" /\ page' = page + 1 /\ sc' = "idle")]_vars
  /\ [][pc = "eventSleep" => (pc' = "events" /\ i' = i + 1 /\ sc' = "idle")]_vars
  /\ [][(pc' = "pages" /\ pc # "pages") => pc \in {"archive", "pageSleep"}]_vars
  /\ [][(pc' = "events" /\ pc # "events") => pc \in {"pages", "eventSleep"}]_vars
  /\ [][page' # page => pc = "pageSleep"]_vars
  /\ [][i' # i => pc = "eventSleep"]_vars
  /\ [][Submits("page") => pc = "pages"]_vars
  /\ [][Submits("event") => pc = "events"]_vars

\* the pacing delay of an event that was given up at the event stage
C18_Witness ==
  /\ pc = "eventSleep"
  /\ i = 1
  /\ entered = {"event"}
  /\ eventUrls[i] \notin evOkUrls
  /\ Len(eventUrls) = 2

\* a website-stage result with no email and a social link that cleanFacebook
\* turns into null
FilteredLinkNoEmail(web) ==
  /\ ~Truthy(Field(web, "email"))
  /\ Truthy(Field(web, "facebook"))
  /\ Field(web, "facebook") # NonStr
  /\ cleanFacebook(Field(web, "facebook")) = Null

\* C19: when the website stage returns no email and a social link that the
\* generic-profile filter rejects, main() still calls the fallback stage, on
\* that link; the record of such an item has facebook null and takes email,
\* phone and address from the fallback result wherever the website gave none.
C19_FallbackOnRawLink ==
  /\ [][(pc = "scrape" /\ stage = "website" /\ sc = "returned"
           /\ FilteredLinkNoEmail(result)) =>
          /\ Submits("facebook")
          /\ jobUrls' = <<Field(result, "facebook")>>]_vars
  /\ []((Emitted /\ FilteredLinkNoEmail(websiteContact)) =>
          LET r == allResults[Len(allResults)]
          IN  /\ "facebook" \in entered
              /\ r.facebook = Null
              /\ \A a \in {"email", "phone", "address"} :
                   r[a] = FirstPresent(Field(websiteContact, a),
                                       Field(facebookContact, a), Null))

\* a record with the email of the generic profile and no facebook
C19_Witness ==
  /\ Emitted
  /\ Field(websiteContact, "facebook") = Url_fbGeneric
  /\ facebookContact # <<>>
  /\ allResults[Len(allResults)].email = <<"f", "@">>
  /\ allResults[Len(allResults)].facebook = Null

\* saveResults runs in the step that appends a record, with the collection
\* as it then is, and in no other step; output/events.json changes only
\* when it is archived and when saveResults writes it
SaveFollowsAppend ==
  /\ [][saveCalls' # saveCalls =>
          /\ saveCalls' = saveCalls + 1
          /\ Len(allResults') = Len(allResults) + 1
          /\ file' = saveResults(allResults')]_vars
  /\ [][allResults' # allResults => saveCalls' = saveCalls + 1]_vars
  /\ [][file' # file => (pc = "archive" \/ saveCalls' # saveCalls)]_vars
  /\ [](saveCalls = Len(allResults))

\* C20 as stated: saveResults runs only right after an append, and at the
\* end of a run, be it the end of main() or the exit at the configuration
\* check, output/events.json exists exactly when the run emitted a record.
C20_FileIffRecord ==
  /\ SaveFollowsAppend
  /\ [](pc \in {"done", "exit1"} => (file.exists <=> allResults # <<>>))

\* C20 amended: saveResults runs only right after an append, and at the end
\* of a run that passed the configuration check output/events.json exists
\* exactly when the run emitted a record, whatever was there before the run;
\* a run stopped at the configuration check leaves the file as it found it.
C20_FileIffRecordAfterCheck ==
  /\ SaveFollowsAppend
  /\ [](pc = "done" => (file.exists <=> allResults # <<>>))
  /\ [](pc = "done" => (file.exists => file = saveResults(allResults)))
  /\ [][pc' = "exit1" => file' = file]_vars
  /\ [](pc = "exit1" => (saveCalls = 0 /\ archiveCalls = 0))

\* a run found an earlier output, discovered events, lost every one of them
\* at the event stage and ended with no file at output/events.json
C20_Witness ==
  /\ pc = "done"
  /\ Len(eventUrls) = 2
  /\ allResults = <<>>
  /\ ~file.exists
  /\ \E path \in ArchivePaths : archives[path] = saveResults(<<OldRecord>>)

=============================================================================
